---- MODULE Spec2Model ----
(***************************************************************************)
(* Model of the whatnot-price-checker backend:                             *)
(*   src/src/routes/price_checker.py       (PriceChecker, /check-price)    *)
(*   src/src/routes/advanced_calculator.py (AdvancedMarginCalculator,      *)
(*                                  /advanced-analysis, /quick-bid-calc)   *)
(*                                                                         *)
(* One behaviour is one invocation: a /check-price request (several steps, *)
(* one per suspension point of the event loop), or one synchronous call of *)
(* an endpoint or of a calculator method.                                  *)
(*                                                                         *)
(* Python numbers are modelled as exact rationals [n, d] in lowest terms   *)
(* with d > 0; round(x, 2) is round-half-even on the exact value.  Python  *)
(* dicts are records (functions on strings): "k in d" is k \in DOMAIN d.   *)
(* An insertion-ordered dict is a sequence of <<key, value>> entries.      *)
(***************************************************************************)
EXTENDS Integers, Sequences, FiniteSets, TLC

VARIABLES
    op,        \* the operation this behaviour invokes ("idle" before it starts)
    args,      \* the arguments / request body of the invocation
    pc,        \* "idle", "gathering" (check_prices suspended in gather), "done"
    task,      \* per marketplace: the fetch coroutine of check_prices
    now,       \* event-loop clock of the request, in tenths of a second
    loop,      \* the request's event loop: "none", "open", "closed"
    ret,       \* value returned (or exception raised) by the calculator method
    response   \* the HTTP response of an endpoint: [status, body]

vars == <<op, args, pc, task, now, loop, ret, response>>

----------------------------------------------------------------------------
(* Numbers *)

Abs(x) == IF x < 0 THEN -x ELSE x

RECURSIVE GCD(_, _)
GCD(a, b) == IF b = 0 THEN a ELSE GCD(b, a % b)

\* The rational n/d in lowest terms, d > 0.
Rat(n, d) ==
    LET g == GCD(Abs(n), Abs(d))
        s == IF d < 0 THEN -1 ELSE 1
    IN  [n |-> (s * n) \div g, d |-> (s * d) \div g]

Num(k) == [n |-> k, d |-> 1]

\* A decimal literal with two fraction digits: Dec(4275) is 42.75.
Dec(c) == Rat(c, 100)

Add(a, b) ==
    LET l == (a.d * b.d) \div GCD(a.d, b.d)
    IN  Rat(a.n * (l \div a.d) + b.n * (l \div b.d), l)

Neg(a) == [n |-> -a.n, d |-> a.d]

Sub(a, b) == Add(a, Neg(b))

Mul(a, b) ==
    LET g1 == GCD(Abs(a.n), b.d)
        g2 == GCD(Abs(b.n), a.d)
    IN  Rat((a.n \div g1) * (b.n \div g2), (a.d \div g2) * (b.d \div g1))

\* a / b for b # 0 (Python raises ZeroDivisionError on b = 0: see the callers).
Div(a, b) == Mul(a, [n |-> IF b.n < 0 THEN -b.d ELSE b.d, d |-> Abs(b.n)])

Lt(a, b) == a.n * b.d < b.n * a.d

Le(a, b) == a.n * b.d <= b.n * a.d

IsZero(a) == a.n = 0

\* round(x, 2): the nearest multiple of 0.01, ties to the even one.
Round2(x) ==
    LET h  == Mul(x, Num(100))
        q  == h.n \div h.d                \* floor
        r2 == 2 * (h.n - q * h.d)         \* twice the fraction, over h.d
        k  == IF r2 < h.d THEN q
              ELSE IF r2 > h.d THEN q + 1
              ELSE IF q % 2 = 0 THEN q ELSE q + 1
    IN  Rat(k, 100)

----------------------------------------------------------------------------
(* Python values *)

None == [none |-> TRUE]

IsNone(x) == "none" \in DOMAIN x

\* A list where None may stand instead (an optional list argument).
List(s) == [list |-> s]

\* An exception object (raised by a call, or returned by gather in place of a result).
Exc(name) == [exception |-> name]

IsException(x) == "exception" \in DOMAIN x

\* d.get(k, default)
Get(d, k, default) == IF k \in DOMAIN d THEN d[k] ELSE default

\* isinstance(x, dict) and not isinstance(x, Exception)
IsDict(x) == ~IsException(x) /\ ~IsNone(x)

\* "not x" for a request body: None and the empty dict are falsy.
Falsy(x) == IsNone(x) \/ DOMAIN x = {}

\* [x for x in s if Keep(x)]
Filter(s, Keep(_)) == SelectSeq(s, Keep)

\* min(s, key=Key): the first element of s whose key is minimal.
MinFirst(s, Key(_)) ==
    s[CHOOSE i \in 1..Len(s) :
        /\ \A j \in 1..Len(s) : Le(Key(s[i]), Key(s[j]))
        /\ \A j \in 1..(i - 1) : Lt(Key(s[i]), Key(s[j]))]

\* max(s, key=Key): the first element of s whose key is maximal.
MaxFirst(s, Key(_)) ==
    s[CHOOSE i \in 1..Len(s) :
        /\ \A j \in 1..Len(s) : Le(Key(s[j]), Key(s[i]))
        /\ \A j \in 1..(i - 1) : Lt(Key(s[j]), Key(s[i]))]

----------------------------------------------------------------------------
(* price_checker.py: the marketplace fetchers *)

Platforms == {"stockx", "goat", "kickscrew"}

\* The tasks list of check_prices, in order.
FetchOrder == <<"stockx", "goat", "kickscrew">>

\* asyncio.sleep(...) of each fetcher, in tenths of a second.
Delay(p) == CASE p = "stockx" -> 5 [] p = "goat" -> 7 [] p = "kickscrew" -> 3

\* Faulty variant of fetch_stockx_price: no except clause, the Exception leaves
\* the coroutine and gather hands it back in place of a quote.
fetch_stockx_price_uncaught(raised) ==
    IF ~raised
    THEN [platform |-> "stockx", lowest_ask |-> Num(450), available |-> TRUE,
          fees |-> Dec(4275), response_time |-> Dec(50)]
    ELSE Exc("Exception")

\* Each fetcher: the quote it returns, or, when an Exception was raised inside
\* its try block, the dict its except clause returns.
fetch_stockx_price(raised) ==
    IF ~raised
    THEN [platform |-> "stockx", lowest_ask |-> Num(450), available |-> TRUE,
          fees |-> Dec(4275), response_time |-> Dec(50)]
    ELSE [platform |-> "stockx", error |-> "Exception", available |-> FALSE]

fetch_goat_price(raised) ==
    IF ~raised
    THEN [platform |-> "goat", lowest_ask |-> Num(465), available |-> TRUE,
          fees |-> Dec(4418), response_time |-> Dec(70)]
    ELSE [platform |-> "goat", error |-> "Exception", available |-> FALSE]

fetch_kickscrew_price(raised) ==
    IF ~raised
    THEN [platform |-> "kickscrew", lowest_ask |-> Num(440), available |-> TRUE,
          fees |-> Dec(3520), response_time |-> Dec(30)]
    ELSE [platform |-> "kickscrew", error |-> "Exception", available |-> FALSE]

Fetch(p, raised) ==
    CASE p = "stockx"    -> fetch_stockx_price(raised)
      [] p = "goat"      -> fetch_goat_price(raised)
      [] p = "kickscrew" -> fetch_kickscrew_price(raised)

----------------------------------------------------------------------------
(* price_checker.py: PriceChecker.calculate_margins *)

\* p.get('available', False)
Available(p) == Get(p, "available", FALSE)

\* The key of min(): lowest_ask + fees.  Every available quote of the model
\* carries lowest_ask, so the float('inf') default is never taken.
AskPlusFees(x) == Add(x.lowest_ask, Get(x, "fees", Num(0)))

\* str(multiplier).replace('.', '_') for the float multipliers of the model.
MultiplierStr(m) ==
    CASE m = Dec(125)  -> "1_25"
      [] m = Dec(150)  -> "1_5"
      [] m = Dec(175)  -> "1_75"
      [] m = Dec(200)  -> "2_0"
      [] m = Dec(250)  -> "2_5"
      [] m = Dec(300)  -> "3_0"
      [] m = Dec(0)    -> "0_0"
      [] m = Dec(-200) -> "-2_0"

\* Faulty variant of RoiPercentage: the profit taken over the net selling
\* price instead of over the bid.
RoiPercentageOfNet(net, max_bid) ==
    IF Lt(Num(0), max_bid)
    THEN Mul(Div(Sub(net, max_bid), net), Num(100))
    ELSE Num(0)

\* roi_percentage = ((net - max_bid) / max_bid) * 100 if max_bid > 0 else 0
RoiPercentage(net, max_bid) ==
    IF Lt(Num(0), max_bid)
    THEN Mul(Div(Sub(net, max_bid), max_bid), Num(100))
    ELSE Num(0)

\* The body of the loop over target_multipliers: the three keys one multiplier adds.
MarginEntries(net_selling_price, multiplier) ==
    LET max_bid         == Div(net_selling_price, multiplier)
        expected_profit == Sub(net_selling_price, max_bid)
        roi_percentage  == RoiPercentage(net_selling_price, max_bid)
        multiplier_str  == MultiplierStr(multiplier)
    IN  (("max_bid_" \o multiplier_str \o "x") :> Round2(max_bid))
        @@ (("expected_profit_" \o multiplier_str \o "x") :> Round2(expected_profit))
        @@ (("roi_" \o multiplier_str \o "x") :> Round2(roi_percentage))

\* The loop over target_multipliers; net / 0 raises ZeroDivisionError.
RECURSIVE MarginLoop(_, _, _)
MarginLoop(recommendations, net_selling_price, multipliers) ==
    IF multipliers = <<>> THEN recommendations
    ELSE IF IsZero(Head(multipliers)) THEN Exc("ZeroDivisionError")
    ELSE MarginLoop(MarginEntries(net_selling_price, Head(multipliers)) @@ recommendations,
                    net_selling_price, Tail(multipliers))

DefaultMultipliers == <<Dec(150), Dec(200)>>

\* Faulty variant of BasicRecommendations: the quote with the highest
\* lowest_ask - fees is selected, as the advanced calculator does.
BasicRecommendationsMaxNet(available_prices, target_multipliers) ==
    LET best_price_data   == MaxFirst(available_prices,
                                      LAMBDA x : Sub(x.lowest_ask, Get(x, "fees", Num(0))))
        best_price        == Get(best_price_data, "lowest_ask", Num(0))
        best_fees         == Get(best_price_data, "fees", Num(0))
        net_selling_price == Sub(best_price, best_fees)
        recommendations   ==
            [best_platform     |-> best_price_data.platform,
             best_price        |-> best_price,
             best_fees         |-> best_fees,
             net_selling_price |-> net_selling_price]
    IN  MarginLoop(recommendations, net_selling_price, target_multipliers)

\* calculate_margins past its guard: the best quote and the recommendations.
BasicRecommendations(available_prices, target_multipliers) ==
    LET best_price_data   == MinFirst(available_prices, AskPlusFees)
        best_price        == Get(best_price_data, "lowest_ask", Num(0))
        best_fees         == Get(best_price_data, "fees", Num(0))
        net_selling_price == Sub(best_price, best_fees)
        recommendations   ==
            [best_platform     |-> best_price_data.platform,
             best_price        |-> best_price,
             best_fees         |-> best_fees,
             net_selling_price |-> net_selling_price]
    IN  MarginLoop(recommendations, net_selling_price, target_multipliers)

\* Faulty variant of calculate_margins: without the guard, min() of an empty
\* list raises ValueError.
calculate_margins_unguarded(prices, target_multipliers) ==
    LET available_prices == Filter(prices, Available)
    IN  IF available_prices = <<>> THEN Exc("ValueError")
        ELSE BasicRecommendations(available_prices, target_multipliers)

calculate_margins(prices, target_multipliers) ==
    LET available_prices == Filter(prices, Available)
    IN  IF available_prices = <<>> THEN [error |-> "No prices available"]
        ELSE BasicRecommendations(available_prices, target_multipliers)

----------------------------------------------------------------------------
(* price_checker.py: PriceChecker.check_prices and the /check-price endpoint *)

\* str.strip() on the strings of the model: " " is the only one with whitespace
\* at its ends.
Strip(s) == IF s = " " THEN "" ELSE s

\* parse_product_input on the product names of the model: <<brand, model>>.
parse_product_input(product_input) ==
    CASE product_input = "Nike Dunk Low Panda" -> <<"nike", "dunk low panda">>
      [] OTHER                                 -> <<"unknown", product_input>>

\* The request bodies of /check-price: no JSON, an empty object, and objects
\* with and without each required field.
ProductNames == {"", " ", "Nike Dunk Low Panda"}

Sizes == {"", "10"}

EmptyDict == [k \in {} |-> TRUE]

CheckPriceBodies ==
    {None, EmptyDict}
    \cup {[product_name |-> n, size |-> z] : n \in ProductNames, z \in Sizes}
    \cup {[product_name |-> n] : n \in ProductNames}
    \cup {[size |-> z, condition |-> "used"] : z \in Sizes}

\* A fetch coroutine before it first runs.
NewTask == [state |-> "pending", wake |-> 0, raised |-> FALSE, result |-> None]

\* Faulty variant of GatherDone: a wait that resumes on the first settled task
\* (asyncio.wait(..., return_when=FIRST_COMPLETED)).
GatherFirstCompleted(t) == \E p \in Platforms : t[p].state = "done"

\* await asyncio.gather(*tasks, return_exceptions=True) resumes when every task is done.
GatherDone(t) == \A p \in Platforms : t[p].state = "done"

\* {price['platform']: price for price in valid_prices}
PricesDict(valid_prices) ==
    [p \in {valid_prices[i].platform : i \in 1..Len(valid_prices)} |->
        valid_prices[CHOOSE i \in 1..Len(valid_prices) :
                        /\ valid_prices[i].platform = p
                        /\ \A j \in (i + 1)..Len(valid_prices) :
                               valid_prices[j].platform # p]]

\* jsonify(...) with its status code.
Http(status, body) == [status |-> status, body |-> body]

\* The validation of check_price: the 400 response it returns, or None when the
\* body passes.
CheckPriceRejection(data) ==
    IF Falsy(data) THEN Http(400, [error |-> "No data provided"])
    ELSE IF Strip(Get(data, "product_name", "")) = ""
    THEN Http(400, [error |-> "Product name is required"])
    ELSE IF Strip(Get(data, "size", "")) = ""
    THEN Http(400, [error |-> "Size is required"])
    ELSE None

\* check_price up to the first suspension of check_prices: validation, the new
\* event loop, and the three fetch tasks handed to gather.
check_price(data) ==
    /\ pc = "idle"
    /\ op = "check_price"
    /\ IF ~IsNone(CheckPriceRejection(data))
       THEN /\ response' = CheckPriceRejection(data)
            /\ pc' = "done"
            /\ UNCHANGED <<task, loop>>
       ELSE /\ loop' = "open"
            /\ task' = [p \in Platforms |-> NewTask]
            /\ pc' = "gathering"
            /\ UNCHANGED response
    /\ UNCHANGED <<op, args, now, ret>>

\* A fetcher runs up to its await asyncio.sleep(d): the loop will wake it at now + d.
FetchStart(p) ==
    /\ pc = "gathering"
    /\ task[p].state = "pending"
    /\ task' = [task EXCEPT ![p] = [state |-> "sleeping", wake |-> now + Delay(p),
                                    raised |-> FALSE, result |-> None]]
    /\ UNCHANGED <<op, args, pc, now, loop, ret, response>>

\* The sleep is over: the fetcher returns its quote.
FetchReturn(p) ==
    /\ pc = "gathering"
    /\ task[p].state = "sleeping"
    /\ task[p].wake <= now
    /\ task' = [task EXCEPT ![p] = [state |-> "done", wake |-> task[p].wake,
                                    raised |-> FALSE, result |-> Fetch(p, FALSE)]]
    /\ UNCHANGED <<op, args, pc, now, loop, ret, response>>

\* An Exception is raised inside the fetcher's try block: its except clause
\* returns the unavailable quote.
FetchRaise(p) ==
    /\ pc = "gathering"
    /\ task[p].state \in {"pending", "sleeping"}
    /\ task' = [task EXCEPT ![p] = [state |-> "done", wake |-> task[p].wake,
                                    raised |-> TRUE, result |-> Fetch(p, TRUE)]]
    /\ UNCHANGED <<op, args, pc, now, loop, ret, response>>

\* Faulty variant of Tick: time passes while a fetch has not been started, as
\* when the fetches are awaited one after the other.
TickWhilePending ==
    /\ pc = "gathering"
    /\ \E p \in Platforms : task[p].state = "sleeping"
    /\ \A p \in Platforms : task[p].state = "sleeping" => now < task[p].wake
    /\ now' = now + 1
    /\ UNCHANGED <<op, args, pc, task, loop, ret, response>>

\* Nothing is ready to run: the event loop waits for its earliest timer.
Tick ==
    /\ pc = "gathering"
    /\ \E p \in Platforms : task[p].state = "sleeping"
    /\ \A p \in Platforms : /\ task[p].state # "pending"
                            /\ task[p].state = "sleeping" => now < task[p].wake
    /\ now' = now + 1
    /\ UNCHANGED <<op, args, pc, task, loop, ret, response>>

\* f"{total_time}s": the number of seconds followed by the letter s.
FormatSeconds(total_time) == <<total_time, "s">>

\* check_prices after the gather: filter the results, calculate_margins (whose
\* exception, if any, leaves check_prices), build the result (its timestamp,
\* wall-clock time, is left out).  elapsed is the time since start_time, in
\* tenths of a second.
CheckPricesResult(data, tasks, elapsed) ==
    LET product_name == Strip(Get(data, "product_name", ""))
        size         == Strip(Get(data, "size", ""))
        condition    == Strip(Get(data, "condition", "new"))
        parsed       == parse_product_input(product_name)
        prices       == [i \in 1..Len(FetchOrder) |-> tasks[FetchOrder[i]].result]
        valid_prices == Filter(prices, IsDict)
        recommendations == calculate_margins(valid_prices, DefaultMultipliers)
        total_time   == Round2(Rat(elapsed, 10))
    IN  IF IsException(recommendations) THEN recommendations
        ELSE [success         |-> TRUE,
              response_time   |-> FormatSeconds(total_time),
              product         |-> [name |-> product_name, brand |-> parsed[1],
                                   model |-> parsed[2], size |-> size,
                                   condition |-> condition],
              prices          |-> PricesDict(valid_prices),
              recommendations |-> recommendations]

\* The response of check_price for what check_prices returned or raised.
CheckPriceResponse(result) ==
    IF IsException(result)
    THEN Http(500, [success |-> FALSE, error |-> result.exception])
    ELSE Http(200, result)

\* check_prices after the gather, and the rest of check_price: the result, the
\* loop closed in the finally clause, the response.
check_prices_resume ==
    /\ pc = "gathering"
    /\ GatherDone(task)
    /\ \E result \in {CheckPricesResult(args, task, now)} :
         /\ ret' = IF IsException(result) THEN result ELSE result.recommendations
         /\ response' = CheckPriceResponse(result)
    /\ loop' = "closed"
    /\ pc' = "done"
    /\ UNCHANGED <<op, args, task, now>>

----------------------------------------------------------------------------
(* advanced_calculator.py: AdvancedMarginCalculator *)

\* self.shipping_costs.get(platform, 15.0)
shipping_costs(platform) ==
    CASE platform = "stockx"    -> Num(15)
      [] platform = "goat"      -> Num(15)
      [] platform = "kickscrew" -> Num(20)
      [] OTHER                  -> Num(15)

\* d[k] = v on an insertion-ordered dict: a key keeps the place of its first insertion.
DictPut(d, k, v) ==
    IF \E i \in 1..Len(d) : d[i].key = k
    THEN [i \in 1..Len(d) |-> IF d[i].key = k THEN [key |-> k, value |-> v] ELSE d[i]]
    ELSE Append(d, [key |-> k, value |-> v])

\* d[k]
DictGet(d, k) == d[CHOOSE i \in 1..Len(d) : d[i].key = k].value

\* list(d.keys())
DictKeys(d) == [i \in 1..Len(d) |-> d[i].key]

\* Faulty variant of PlatformEntry: shipping is not deducted from the net price.
PlatformEntryWithoutShipping(price_data) ==
    LET platform  == price_data.platform
        ask_price == Get(price_data, "lowest_ask", Num(0))
        fees      == Get(price_data, "fees", Num(0))
        shipping  == shipping_costs(platform)
        net_price == Sub(ask_price, fees)
    IN  [ask_price         |-> ask_price,
         fees              |-> fees,
         shipping          |-> shipping,
         net_selling_price |-> net_price,
         total_costs       |-> Add(fees, shipping),
         profit_margin_percentage |->
             IF Lt(Num(0), ask_price)
             THEN Mul(Div(net_price, ask_price), Num(100))
             ELSE Num(0)]

\* The platform_analysis entry of one available quote.
PlatformEntry(price_data) ==
    LET platform  == price_data.platform
        ask_price == Get(price_data, "lowest_ask", Num(0))
        fees      == Get(price_data, "fees", Num(0))
        shipping  == shipping_costs(platform)
        net_price == Sub(Sub(ask_price, fees), shipping)
    IN  [ask_price         |-> ask_price,
         fees              |-> fees,
         shipping          |-> shipping,
         net_selling_price |-> net_price,
         total_costs       |-> Add(fees, shipping),
         profit_margin_percentage |->
             IF Lt(Num(0), ask_price)
             THEN Mul(Div(net_price, ask_price), Num(100))
             ELSE Num(0)]

\* The loop that fills platform_analysis.
RECURSIVE PlatformAnalysis(_, _)
PlatformAnalysis(platform_analysis, available_prices) ==
    IF available_prices = <<>> THEN platform_analysis
    ELSE PlatformAnalysis(
             DictPut(platform_analysis, Head(available_prices).platform,
                     PlatformEntry(Head(available_prices))),
             Tail(available_prices))

NetOf(entry) == entry.value.net_selling_price

\* Faulty variant of BestPlatform: among equal net prices the last one wins.
BestPlatformLast(platform_analysis) ==
    platform_analysis[CHOOSE i \in 1..Len(platform_analysis) :
        /\ \A j \in 1..Len(platform_analysis) :
               Le(NetOf(platform_analysis[j]), NetOf(platform_analysis[i]))
        /\ \A j \in (i + 1)..Len(platform_analysis) :
               Lt(NetOf(platform_analysis[j]), NetOf(platform_analysis[i]))].key

\* max(platform_analysis.keys(), key=lambda x: platform_analysis[x]['net_selling_price'])
BestPlatform(platform_analysis) == MaxFirst(platform_analysis, NetOf).key

\* One element of bidding_recommendations (target # 0).
BiddingRecommendation(best_net_price, target) ==
    LET max_bid         == Div(best_net_price, target)
        expected_profit == Sub(best_net_price, max_bid)
        roi_percentage  == RoiPercentage(best_net_price, max_bid)
    IN  [target_multiplier |-> target,
         max_bid           |-> Round2(max_bid),
         expected_profit   |-> Round2(expected_profit),
         roi_percentage    |-> Round2(roi_percentage),
         break_even_bid    |-> Round2(best_net_price)]

\* The loop over custom_targets (none of them 0).
RECURSIVE BiddingLoop(_, _, _)
BiddingLoop(bidding_recommendations, best_net_price, targets) ==
    IF targets = <<>> THEN bidding_recommendations
    ELSE BiddingLoop(Append(bidding_recommendations,
                            BiddingRecommendation(best_net_price, Head(targets))),
                     best_net_price, Tail(targets))

DefaultTargets == <<Dec(125), Dec(150), Dec(175), Dec(200), Dec(250), Dec(300)>>

RECURSIVE Sum(_)
Sum(s) == IF s = <<>> THEN Num(0) ELSE Add(Head(s), Sum(Tail(s)))

\* The largest r in lo..hi with r * r <= x  (lo * lo <= x < (hi + 1) * (hi + 1)).
RECURSIVE IsqrtIn(_, _, _)
IsqrtIn(x, lo, hi) ==
    IF lo = hi THEN lo
    ELSE LET mid == (lo + hi + 1) \div 2
         IN  IF mid * mid <= x THEN IsqrtIn(x, mid, hi) ELSE IsqrtIn(x, lo, mid - 1)

\* round(v ** 0.5, 2) for v >= 0: the s/100 nearest to the square root of v.
\* With F = floor(40000 v) and r = isqrt(F), (2s - 1)^2 <= 40000 v < (2s + 1)^2
\* gives s = (r + 1) \div 2; an exact half goes to the even neighbour.
SqrtRound2(v) ==
    LET F     == 40000 * (v.n \div v.d) + (40000 * (v.n % v.d)) \div v.d
        exact == (40000 * (v.n % v.d)) % v.d = 0
        r     == IsqrtIn(F, 0, 46340)
        up    == (r + 1) \div 2
    IN  IF exact /\ r * r = F /\ r % 2 = 1 /\ up % 2 = 1
        THEN Rat(up - 1, 100)
        ELSE Rat(up, 100)

Square(a) == Mul(a, a)

\* Faulty variant of RiskLevel: Medium ends at 10 instead of 15.
RiskLevelMediumTo10(price_spread_percentage) ==
    IF Lt(price_spread_percentage, Num(5)) THEN "Low"
    ELSE IF Lt(price_spread_percentage, Num(10)) THEN "Medium"
    ELSE "High"

\* The risk level assessment.
RiskLevel(price_spread_percentage) ==
    IF Lt(price_spread_percentage, Num(5)) THEN "Low"
    ELSE IF Lt(price_spread_percentage, Num(15)) THEN "Medium"
    ELSE "High"

calculate_risk_analysis(platform_analysis, best_net_price) ==
    LET net_prices == [i \in 1..Len(platform_analysis) |-> NetOf(platform_analysis[i])]
    IN  IF Len(net_prices) < 2 THEN [error |-> "Insufficient data for risk analysis"]
        ELSE
        LET n             == Num(Len(net_prices))
            mean_price    == Div(Sum(net_prices), n)
            variance      == Div(Sum([i \in 1..Len(net_prices) |->
                                          Square(Sub(net_prices[i], mean_price))]), n)
            std_deviation == SqrtRound2(variance)
            max_price     == CHOOSE x \in {net_prices[i] : i \in 1..Len(net_prices)} :
                                 \A i \in 1..Len(net_prices) : Le(net_prices[i], x)
            min_price     == CHOOSE x \in {net_prices[i] : i \in 1..Len(net_prices)} :
                                 \A i \in 1..Len(net_prices) : Le(x, net_prices[i])
            price_spread  == Sub(max_price, min_price)
            price_spread_percentage ==
                IF Lt(Num(0), mean_price)
                THEN Mul(Div(price_spread, mean_price), Num(100))
                ELSE Num(0)
            risk_level    == RiskLevel(price_spread_percentage)
            confidence    == Sub(Num(100), price_spread_percentage)
        IN  [price_spread            |-> Round2(price_spread),
             price_spread_percentage |-> Round2(price_spread_percentage),
             volatility              |-> std_deviation,
             risk_level              |-> risk_level,
             confidence_score        |-> IF Lt(Num(0), confidence) THEN confidence
                                         ELSE Num(0)]

\* Faulty variant of SortedDesc: the ascending sort reversed, which puts the
\* last of equal entries first.
RECURSIVE SortedDescReversed(_)
SortedDescReversed(d) ==
    IF d = <<>> THEN <<>>
    ELSE LET first == DictGet([i \in 1..Len(d) |-> [key |-> d[i].key, value |-> d[i]]],
                              BestPlatformLast(d))
             rest  == SelectSeq(d, LAMBDA e : e.key # first.key)
         IN  <<first>> \o SortedDescReversed(rest)

\* sorted(entries, key=net_selling_price, reverse=True): descending and stable.
RECURSIVE SortedDesc(_)
SortedDesc(d) ==
    IF d = <<>> THEN <<>>
    ELSE LET first == MaxFirst(d, NetOf)
             rest  == SelectSeq(d, LAMBDA e : e.key # first.key)
         IN  <<first>> \o SortedDesc(rest)

calculate_market_comparison(platform_analysis) ==
    LET sorted_entries   == SortedDesc(platform_analysis)
        sorted_platforms == DictKeys(sorted_entries)
        best_platform    == sorted_platforms[1]
        worst_platform   == sorted_platforms[Len(sorted_platforms)]
        best_price       == DictGet(platform_analysis, best_platform).net_selling_price
        worst_price      == DictGet(platform_analysis, worst_platform).net_selling_price
        price_advantage  == Sub(best_price, worst_price)
        price_advantage_percentage ==
            IF Lt(Num(0), worst_price)
            THEN Mul(Div(price_advantage, worst_price), Num(100))
            ELSE Num(0)
    IN  [platform_ranking           |-> sorted_platforms,
         best_platform              |-> best_platform,
         worst_platform             |-> worst_platform,
         price_advantage            |-> Round2(price_advantage),
         price_advantage_percentage |-> Round2(price_advantage_percentage),
         recommendation             |-> <<"Sell on", best_platform, "for",
                                          Round2(price_advantage), "more profit">>]

\* The timestamp field (wall-clock time) is left out of the result.
calculate_detailed_margins(prices, custom_targets) ==
    LET targets          == IF IsNone(custom_targets) THEN DefaultTargets
                            ELSE custom_targets.list
        available_prices == Filter(prices, Available)
    IN  IF available_prices = <<>> THEN [error |-> "No prices available"]
        ELSE
        LET platform_analysis == PlatformAnalysis(<<>>, available_prices)
            best_platform     == BestPlatform(platform_analysis)
            best_net_price    == DictGet(platform_analysis, best_platform).net_selling_price
            bidding_recommendations == BiddingLoop(<<>>, best_net_price, targets)
        IN  \* best_net_price / target raises ZeroDivisionError on a target of 0
            IF \E i \in 1..Len(targets) : IsZero(targets[i])
            THEN Exc("ZeroDivisionError")
            ELSE [platform_analysis       |-> platform_analysis,
                  best_platform           |-> best_platform,
                  best_net_price          |-> best_net_price,
                  bidding_recommendations |-> bidding_recommendations,
                  risk_analysis           |->
                      calculate_risk_analysis(platform_analysis, best_net_price),
                  market_comparison       |->
                      calculate_market_comparison(platform_analysis)]

estimate_success_probability(target_multiplier) ==
    IF Le(Num(3), target_multiplier) THEN Num(60)
    ELSE IF Le(Dec(250), target_multiplier) THEN Num(75)
    ELSE IF Le(Num(2), target_multiplier) THEN Num(85)
    ELSE IF Le(Dec(150), target_multiplier) THEN Num(95)
    ELSE Num(98)

\* One entry of strategy_recommendations.
StrategyEntry(net_selling_price, target_multiplier, description) ==
    LET max_bid         == Div(net_selling_price, target_multiplier)
        expected_profit == Sub(net_selling_price, max_bid)
    IN  [max_bid             |-> Round2(max_bid),
         expected_profit     |-> Round2(expected_profit),
         target_multiplier   |-> target_multiplier,
         description         |-> description,
         success_probability |-> estimate_success_probability(target_multiplier)]

calculate_auction_strategy(net_selling_price, auction_time_remaining) ==
    [strategies |->
        [conservative |-> StrategyEntry(net_selling_price, Dec(250),
                                        "Low risk, high profit margin"),
         moderate     |-> StrategyEntry(net_selling_price, Dec(200),
                                        "Balanced risk and profit"),
         aggressive   |-> StrategyEntry(net_selling_price, Dec(150),
                                        "Higher risk, faster turnover")],
     recommended_strategy |->
         IF auction_time_remaining <= 5 THEN "aggressive"
         ELSE IF auction_time_remaining <= 15 THEN "moderate"
         ELSE "conservative",
     urgency_note |->
         IF auction_time_remaining <= 5
         THEN "Limited time - consider aggressive bidding"
         ELSE IF auction_time_remaining <= 15
         THEN "Moderate time remaining - balanced approach recommended"
         ELSE "Plenty of time - can afford to be conservative",
     auction_time_remaining |-> auction_time_remaining]

----------------------------------------------------------------------------
(* advanced_calculator.py: the endpoints *)

\* The price_list the endpoint builds from the prices object (an ordered dict).
PriceList(prices) ==
    [i \in 1..Len(prices) |->
        [platform   |-> prices[i].key,
         lowest_ask |-> Get(prices[i].value, "lowest_ask", Num(0)),
         fees       |-> Get(prices[i].value, "fees", Num(0)),
         available  |-> Get(prices[i].value, "available", TRUE)]]

\* advanced_analysis: what calculate_detailed_margins returned or raised (None
\* when it was not called) and the response.
AdvancedAnalysisOutcome(data) ==
    IF Falsy(data)
    THEN [ret |-> None, response |-> Http(400, [error |-> "No data provided"])]
    ELSE LET prices         == Get(data, "prices", <<>>)
             custom_targets == Get(data, "custom_targets", None)
             auction_time   == Get(data, "auction_time_remaining", 10)
         IN  IF prices = <<>>
             THEN [ret |-> None,
                   response |-> Http(400, [error |-> "Price data is required"])]
             ELSE LET analysis ==
                          calculate_detailed_margins(PriceList(prices), custom_targets)
                  IN  [ret |-> analysis,
                       response |->
                           IF IsException(analysis)
                           THEN Http(500, [success |-> FALSE,
                                           error |-> analysis.exception])
                           ELSE IF "best_net_price" \in DOMAIN analysis
                           THEN Http(200,
                                  [success  |-> TRUE,
                                   analysis |->
                                      ("auction_strategy" :>
                                          calculate_auction_strategy(
                                              analysis.best_net_price, auction_time))
                                      @@ analysis])
                           ELSE Http(200, [success |-> TRUE, analysis |-> analysis])]

\* POST /advanced-analysis
advanced_analysis(data) ==
    /\ pc = "idle"
    /\ op = "advanced_analysis"
    /\ pc' = "done"
    /\ \E outcome \in {AdvancedAnalysisOutcome(data)} :
         /\ ret' = outcome.ret
         /\ response' = outcome.response
    /\ UNCHANGED <<op, args, task, now, loop>>

\* The response of quick_bid_calculator.
QuickBidResponse(data) ==
    IF IsNone(data)
    THEN \* data.get on None raises AttributeError
         Http(500, [success |-> FALSE, error |-> "AttributeError"])
    ELSE LET selling_price     == Get(data, "selling_price", Num(0))
             target_multiplier == Get(data, "target_multiplier", Dec(200))
             platform_fees     == Get(data, "platform_fees", Rat(95, 1000))
             shipping_cost     == Get(data, "shipping_cost", Num(15))
         IN  IF Le(selling_price, Num(0))
             THEN Http(400, [error |-> "Valid selling price is required"])
             ELSE
             LET fees              == Mul(selling_price, platform_fees)
                 net_selling_price == Sub(Sub(selling_price, fees), shipping_cost)
             IN  IF IsZero(target_multiplier)
                 THEN Http(500, [success |-> FALSE, error |-> "ZeroDivisionError"])
                 ELSE
                 LET max_bid         == Div(net_selling_price, target_multiplier)
                     expected_profit == Sub(net_selling_price, max_bid)
                     roi_percentage  == RoiPercentage(net_selling_price, max_bid)
                 IN  Http(200,
                         [success           |-> TRUE,
                          selling_price     |-> selling_price,
                          fees              |-> Round2(fees),
                          shipping_cost     |-> shipping_cost,
                          net_selling_price |-> Round2(net_selling_price),
                          max_bid           |-> Round2(max_bid),
                          expected_profit   |-> Round2(expected_profit),
                          roi_percentage    |-> Round2(roi_percentage),
                          target_multiplier |-> target_multiplier])

\* POST /quick-bid-calc
quick_bid_calculator(data) ==
    /\ pc = "idle"
    /\ op = "quick_bid_calc"
    /\ pc' = "done"
    /\ ret' = None
    /\ response' = QuickBidResponse(data)
    /\ UNCHANGED <<op, args, task, now, loop>>

\* A direct call of PriceChecker.calculate_margins.
call_calculate_margins(prices, target_multipliers) ==
    /\ pc = "idle"
    /\ op = "calculate_margins"
    /\ pc' = "done"
    /\ ret' = calculate_margins(prices, target_multipliers)
    /\ UNCHANGED <<op, args, task, now, loop, response>>

\* A direct call of AdvancedMarginCalculator.calculate_detailed_margins.
call_calculate_detailed_margins(prices, custom_targets) ==
    /\ pc = "idle"
    /\ op = "calculate_detailed_margins"
    /\ pc' = "done"
    /\ ret' = calculate_detailed_margins(prices, custom_targets)
    /\ UNCHANGED <<op, args, task, now, loop, response>>

----------------------------------------------------------------------------
(* The inputs of the model *)

\* Longest custom target list.
MaxTargets == 2

SeqsUpTo(S, n) == UNION {[1..k -> S] : k \in 0..n}

\* Target multipliers a caller may pass: 0.0, 2.0, -2.0.
TargetValues == {Dec(0), Dec(200), Dec(-200)}

TargetSeqs == SeqsUpTo(TargetValues, MaxTargets)

\* The same as values of the optional custom_targets argument.
TargetLists == {List(t) : t \in TargetSeqs}

\* The sequences of distinct platforms: a caller passes one quote per platform.
PlatformSeqs ==
    {ps \in SeqsUpTo(Platforms, Cardinality(Platforms)) :
        \A i, j \in 1..Len(ps) : i # j => ps[i] # ps[j]}

Unavailable == [available |-> FALSE, error |-> "Exception"]

AvailableQuote(ask, fees) == [lowest_ask |-> ask, fees |-> fees, available |-> TRUE]

\* Quotes for the advanced calculator (net of 15 shipping: -15, 0, 95, 100,
\* 103, 120, 300), and an unavailable one.
AdvancedQuotes ==
    {AvailableQuote(Num(0), Num(0)), AvailableQuote(Num(15), Num(0)),
     AvailableQuote(Dec(12140), Dec(1140)), AvailableQuote(Num(115), Num(0)),
     AvailableQuote(Num(118), Num(0)), AvailableQuote(Num(150), Num(15)),
     AvailableQuote(Num(315), Num(0)), Unavailable}

\* Quotes for the basic calculator (ask - fees: 0, -2, 404.80, 407.25), and an
\* unavailable one.
BasicQuotes ==
    {AvailableQuote(Num(0), Num(0)), AvailableQuote(Num(10), Num(12)),
     AvailableQuote(Num(440), Dec(3520)), AvailableQuote(Num(450), Dec(4275)),
     Unavailable}

\* A price list: one quote (v[i]) for each platform of a sequence ps of distinct
\* platforms.
MakePriceList(ps, v) == [i \in 1..Len(ps) |-> ("platform" :> ps[i]) @@ v[i]]

\* The prices object of an /advanced-analysis body for a price list: available
\* is left out where it is true (the endpoint defaults it).
PricesObject(price_list) ==
    [i \in 1..Len(price_list) |->
        [key   |-> price_list[i].platform,
         value |-> IF price_list[i].available
                   THEN [lowest_ask |-> price_list[i].lowest_ask,
                         fees |-> price_list[i].fees]
                   ELSE [available |-> FALSE]]]

\* An optional field of a JSON body: absent, or one of Vals.
Opt(k, Vals) == {EmptyDict} \cup {k :> v : v \in Vals}

AuctionTimes == {3, 20}

\* Bodies of /advanced-analysis without a usable prices object.
AdvancedBodiesNoPrices ==
    {None, EmptyDict, [custom_targets |-> List(<<Dec(200)>>)],
     [prices |-> <<>>, auction_time_remaining |-> 3]}

QuickBidBodies ==
    {None}
    \cup {a @@ b @@ c @@ d :
             a \in Opt("selling_price", {Num(-10), Num(0), Num(10), Num(15), Num(100)}),
             b \in Opt("target_multiplier", TargetValues \cup {Dec(150)}),
             c \in Opt("platform_fees", {Num(0)}),
             d \in Opt("shipping_cost", {Num(0)})}

----------------------------------------------------------------------------

\* The invocations of the model: the operation and its arguments.
Invocation(o, a) == op = o /\ args = a

\* Price lists of every length meet the default targets; custom target lists
\* meet the price lists of at most MaxCustomQuotes quotes (the recommendations
\* depend on the prices through the best net price alone).
MaxCustomQuotes == 1

ShortSeqs == {qs \in PlatformSeqs : Len(qs) <= MaxCustomQuotes}

Invocations ==
    \/ \E data \in CheckPriceBodies : Invocation("check_price", data)
    \/ \E data \in AdvancedBodiesNoPrices : Invocation("advanced_analysis", data)
    \/ \E ps \in PlatformSeqs \ {<<>>} :
         \E v \in [1..Len(ps) -> AdvancedQuotes] :
           Invocation("advanced_analysis",
                      [prices |-> PricesObject(MakePriceList(ps, v))])
    \/ \E ps \in ShortSeqs \ {<<>>} :
         \E v \in [1..Len(ps) -> AdvancedQuotes], t \in TargetLists :
           Invocation("advanced_analysis",
                      [prices |-> PricesObject(MakePriceList(ps, v)),
                       custom_targets |-> t])
    \/ \E ps \in {qs \in PlatformSeqs : Len(qs) = 1} :
         \E v \in [1..Len(ps) -> AdvancedQuotes], a \in AuctionTimes :
           Invocation("advanced_analysis",
                      [prices |-> PricesObject(MakePriceList(ps, v)),
                       auction_time_remaining |-> a])
    \/ \E data \in QuickBidBodies : Invocation("quick_bid_calc", data)
    \/ \E ps \in PlatformSeqs :
         \E v \in [1..Len(ps) -> BasicQuotes] :
           Invocation("calculate_margins",
                      [prices |-> MakePriceList(ps, v),
                       target_multipliers |-> DefaultMultipliers])
    \/ \E ps \in ShortSeqs :
         \E v \in [1..Len(ps) -> BasicQuotes], t \in TargetSeqs :
           Invocation("calculate_margins",
                      [prices |-> MakePriceList(ps, v), target_multipliers |-> t])
    \/ \E ps \in PlatformSeqs :
         \E v \in [1..Len(ps) -> AdvancedQuotes] :
           Invocation("calculate_detailed_margins",
                      [prices |-> MakePriceList(ps, v), custom_targets |-> None])
    \/ \E ps \in ShortSeqs :
         \E v \in [1..Len(ps) -> AdvancedQuotes], t \in TargetLists :
           Invocation("calculate_detailed_margins",
                      [prices |-> MakePriceList(ps, v), custom_targets |-> t])

\* The service after construction, with one invocation about to run.
Init ==
    /\ Invocations
    /\ pc = "idle"
    /\ task = [p \in Platforms |-> NewTask]
    /\ now = 0
    /\ loop = "none"
    /\ ret = None
    /\ response = None

Next ==
    \/ check_price(args)
    \/ \E p \in Platforms : FetchStart(p)
    \/ \E p \in Platforms : FetchReturn(p)
    \/ \E p \in Platforms : FetchRaise(p)
    \/ Tick
    \/ check_prices_resume
    \/ advanced_analysis(args)
    \/ quick_bid_calculator(args)
    \/ call_calculate_margins(args.prices, args.target_multipliers)
    \/ call_calculate_detailed_margins(args.prices, args.custom_targets)

Spec == Init /\ [][Next]_vars

----------------------------------------------------------------------------
(* Properties *)

Done(o) == op = o /\ pc = "done"

\* A /check-price request that passed validation and was answered.
CheckPriceAnswered == Done("check_price") /\ loop = "closed"

\* C1: in check_prices the margins are computed and the response is produced
\* only after each of the three fetches has settled (returned or raised); the
\* response then holds one quote per marketplace.
C1_Barrier ==
    (op = "check_price" /\ loop # "none" /\ (~IsNone(ret) \/ ~IsNone(response)))
        => /\ \A p \in Platforms : task[p].state = "done"
           /\ response.status = 200
           /\ DOMAIN response.body.prices = Platforms

\* A request answered after a mix of returned and raised fetches.
C1_Witness ==
    /\ CheckPriceAnswered
    /\ response.status = 200
    /\ \A p \in Platforms : task[p].state = "done"
    /\ task["goat"].raised
    /\ ~task["stockx"].raised

\* C2: whatever subset of the fetches raises, the request is answered 200 with
\* success; each failed fetch appears in prices with available = false and each
\* other one with its quote; and when a fetch succeeded the recommendations are
\* the margins of the successful quotes alone, the best platform among them.
C2_FailedFetches ==
    CheckPriceAnswered =>
        LET body == response.body
            good == SelectSeq(FetchOrder, LAMBDA p : ~task[p].raised)
        IN  /\ response.status = 200
            /\ body.success = TRUE
            /\ \A p \in Platforms :
                 /\ p \in DOMAIN body.prices
                 /\ body.prices[p].platform = p
                 /\ body.prices[p].available = ~task[p].raised
            /\ good # <<>> =>
                 /\ "error" \notin DOMAIN body.recommendations
                 /\ ~task[body.recommendations.best_platform].raised
                 /\ body.recommendations =
                        calculate_margins([i \in 1..Len(good) |-> task[good[i]].result],
                                          DefaultMultipliers)

\* The cheapest marketplace (kickscrew) and stockx fail, goat is left.
C2_Witness ==
    /\ CheckPriceAnswered
    /\ task["kickscrew"].raised /\ task["stockx"].raised /\ ~task["goat"].raised
    /\ response.body.recommendations.best_platform = "goat"

NoPricesAvailable == [error |-> "No prices available"]

IsUnavailable(quote) == "available" \notin DOMAIN quote \/ ~quote.available

\* C3: called with no available quote (an empty list, or unavailable quotes
\* only) calculate_margins and calculate_detailed_margins return exactly
\* {error: 'No prices available'}; the endpoint that got this result answers
\* 200, and /advanced-analysis attaches no auction_strategy.
C3_NoPricesAvailable ==
    /\ (pc = "done" /\ op \in {"calculate_margins", "calculate_detailed_margins"}
          /\ \A i \in 1..Len(args.prices) : IsUnavailable(args.prices[i]))
        => ret = NoPricesAvailable
    /\ (Done("advanced_analysis") /\ "prices" \in DOMAIN args /\ args.prices # <<>>
          /\ \A i \in 1..Len(args.prices) :
                /\ "available" \in DOMAIN args.prices[i].value
                /\ ~args.prices[i].value.available)
        => /\ ret = NoPricesAvailable
           /\ response = Http(200, [success |-> TRUE, analysis |-> NoPricesAvailable])
    /\ (CheckPriceAnswered /\ \A p \in Platforms : task[p].raised)
        => /\ ret = NoPricesAvailable
           /\ response.status = 200
           /\ response.body.success = TRUE
           /\ response.body.recommendations = NoPricesAvailable

\* /advanced-analysis with two quotes, both unavailable.
C3_Witness ==
    /\ Done("advanced_analysis")
    /\ "prices" \in DOMAIN args
    /\ Len(args.prices) = 2
    /\ ret = NoPricesAvailable
    /\ response.status = 200

\* calculate_detailed_margins on the empty list.
C3_WitnessEmpty ==
    /\ Done("calculate_detailed_margins")
    /\ args.prices = <<>>
    /\ ret = NoPricesAvailable

----------------------------------------------------------------------------
(* Properties of calculate_detailed_margins *)

\* calculate_detailed_margins was called (directly, or by /advanced-analysis).
DetailedCalled ==
    pc = "done" /\ (op = "calculate_detailed_margins"
                    \/ (op = "advanced_analysis" /\ ~IsNone(ret)))

\* ... and returned an analysis.
DetailedReturned == DetailedCalled /\ "platform_analysis" \in DOMAIN ret

\* The quotes it was called with, in order.
DetailedQuotes ==
    IF op = "advanced_analysis" THEN PriceList(args.prices) ELSE args.prices

AvailableQuotes == SelectSeq(DetailedQuotes, LAMBDA q : ~IsUnavailable(q))

\* The target list it used.
DetailedTargets ==
    LET custom_targets == IF op = "advanced_analysis"
                          THEN Get(args, "custom_targets", None)
                          ELSE args.custom_targets
    IN  IF IsNone(custom_targets) THEN DefaultTargets ELSE custom_targets.list

EntryOf(platform) == DictGet(ret.platform_analysis, platform)

\* C4: every available quote passed to calculate_detailed_margins has a
\* platform_analysis entry under its platform, with the quote's ask and fees,
\* net_selling_price = ask_price - fees - shipping and total_costs = fees +
\* shipping; an unavailable quote has no entry.
C4_NetSellingPrice ==
    DetailedReturned =>
        \A i \in 1..Len(DetailedQuotes) :
            LET quote == DetailedQuotes[i]
                keys  == {ret.platform_analysis[j].key :
                             j \in 1..Len(ret.platform_analysis)}
            IN  IF IsUnavailable(quote) THEN quote.platform \notin keys
                ELSE /\ quote.platform \in keys
                     /\ LET e == EntryOf(quote.platform)
                        IN  /\ e.ask_price = quote.lowest_ask
                            /\ e.fees = quote.fees
                            /\ e.net_selling_price =
                                   Sub(Sub(e.ask_price, e.fees), e.shipping)
                            /\ e.total_costs = Add(e.fees, e.shipping)

\* Three quotes, one unavailable, one with fees and a net price of 95.
C4_Witness ==
    /\ DetailedReturned
    /\ Len(DetailedQuotes) = 3
    /\ Len(ret.platform_analysis) = 2
    /\ \E j \in 1..2 : /\ ret.platform_analysis[j].value.fees = Dec(1140)
                       /\ ret.platform_analysis[j].value.net_selling_price = Num(95)

\* C5: best_platform is an available platform whose net_selling_price is
\* maximal, the first such one in input order, and best_net_price is its
\* net_selling_price.
C5_BestPlatform ==
    DetailedReturned =>
        LET net(q) == EntryOf(q.platform).net_selling_price
        IN  /\ \E i \in 1..Len(AvailableQuotes) :
                 /\ AvailableQuotes[i].platform = ret.best_platform
                 /\ \A j \in 1..Len(AvailableQuotes) :
                        Le(net(AvailableQuotes[j]), net(AvailableQuotes[i]))
                 /\ \A j \in 1..(i - 1) :
                        Lt(net(AvailableQuotes[j]), net(AvailableQuotes[i]))
            /\ ret.best_net_price = EntryOf(ret.best_platform).net_selling_price

\* Three available quotes; the second and the third tie for the maximum (100)
\* and the second is chosen.
C5_Witness ==
    /\ DetailedReturned
    /\ Len(AvailableQuotes) = 3
    /\ EntryOf(AvailableQuotes[1].platform).net_selling_price = Num(95)
    /\ EntryOf(AvailableQuotes[2].platform).net_selling_price = Num(100)
    /\ EntryOf(AvailableQuotes[3].platform).net_selling_price = Num(100)
    /\ ret.best_platform = AvailableQuotes[2].platform

\* The spec's example: {A: 100, B: 120, C: 90} gives B.
C5_WitnessExample ==
    /\ DetailedReturned
    /\ Len(AvailableQuotes) = 3
    /\ EntryOf(AvailableQuotes[1].platform).net_selling_price = Num(100)
    /\ EntryOf(AvailableQuotes[2].platform).net_selling_price = Num(120)
    /\ EntryOf(AvailableQuotes[3].platform).net_selling_price = Num(90)
    /\ ret.best_platform = AvailableQuotes[2].platform

\* The recommendation for target multiplier m and best net price P, all but roi.
RecommendationFits(r, P, m) ==
    /\ r.target_multiplier = m
    /\ r.max_bid = Round2(Div(P, m))
    /\ r.expected_profit = Round2(Sub(P, Div(P, m)))
    /\ r.break_even_bid = Round2(P)

\* ((P - P/m) / (P/m)) * 100, where P/m # 0
RoiFormula(P, m) == Mul(Div(Sub(P, Div(P, m)), Div(P, m)), Num(100))

\* C6 as stated: every returned bidding_recommendations holds one
\* recommendation per target multiplier m, in list order, with max_bid = P/m,
\* expected_profit = P - P/m, roi_percentage = ((P - P/m)/(P/m)) * 100 and
\* break_even_bid = P, each rounded to 2 decimals.
C6_Original ==
    DetailedReturned =>
        LET P    == ret.best_net_price
            recs == ret.bidding_recommendations
        IN  /\ Len(recs) = Len(DetailedTargets)
            /\ \A i \in 1..Len(recs) :
                 /\ RecommendationFits(recs[i], P, DetailedTargets[i])
                 /\ ~IsZero(P)
                 /\ recs[i].roi_percentage = Round2(RoiFormula(P, DetailedTargets[i]))

\* C6 (amended): called with an available quote, calculate_detailed_margins
\* raises ZeroDivisionError when a target multiplier is 0; otherwise it returns
\* one recommendation per target multiplier m, in list order, with max_bid =
\* P/m, expected_profit = P - P/m, break_even_bid = P, and roi_percentage =
\* ((P - P/m)/(P/m)) * 100 when P/m > 0 and 0 when P/m <= 0 (each rounded to 2
\* decimals); P = 300 and m = 2.0 give max_bid 150, profit 150 and roi 100.
C6_Recommendations ==
    (DetailedCalled /\ AvailableQuotes # <<>>) =>
        IF \E i \in 1..Len(DetailedTargets) : IsZero(DetailedTargets[i])
        THEN ret = Exc("ZeroDivisionError")
        ELSE /\ DetailedReturned
             /\ LET P    == ret.best_net_price
                    recs == ret.bidding_recommendations
                IN  /\ Len(recs) = Len(DetailedTargets)
                    /\ \A i \in 1..Len(recs) :
                         LET m == DetailedTargets[i]
                         IN  /\ RecommendationFits(recs[i], P, m)
                             /\ recs[i].roi_percentage =
                                    IF Lt(Num(0), Div(P, m))
                                    THEN Round2(RoiFormula(P, m))
                                    ELSE Num(0)
                             /\ (P = Num(300) /\ m = Num(2)) =>
                                    /\ recs[i].max_bid = Num(150)
                                    /\ recs[i].expected_profit = Num(150)
                                    /\ recs[i].roi_percentage = Num(100)

\* P = 300 with the default targets: the fourth recommendation is for 2.0.
C6_Witness ==
    /\ DetailedReturned
    /\ ret.best_net_price = Num(300)
    /\ Len(ret.bidding_recommendations) = 6
    /\ ret.bidding_recommendations[4] =
           [target_multiplier |-> Num(2), max_bid |-> Num(150),
            expected_profit |-> Num(150), roi_percentage |-> Num(100),
            break_even_bid |-> Num(300)]

\* A negative best net price with a custom list of two targets.
C6_WitnessNegative ==
    /\ DetailedReturned
    /\ Lt(ret.best_net_price, Num(0))
    /\ DetailedTargets = <<Num(2), Num(-2)>>
    /\ ret.bidding_recommendations[1].roi_percentage = Num(0)
    /\ ret.bidding_recommendations[2].roi_percentage = Num(-300)

\* The keys calculate_margins adds for a multiplier.
MaxBidKey(m) == "max_bid_" \o MultiplierStr(m) \o "x"

RoiKey(m) == "roi_" \o MultiplierStr(m) \o "x"

\* calculate_margins was called (directly, or by check_prices) and returned
\* recommendations.
BasicReturned ==
    /\ pc = "done"
    /\ op \in {"calculate_margins", "check_price"}
    /\ IsDict(ret)
    /\ "net_selling_price" \in DOMAIN ret

BasicMultipliers ==
    IF op = "calculate_margins" THEN args.target_multipliers ELSE DefaultMultipliers

\* /quick-bid-calc answered with a bid.
QuickBidAnswered ==
    /\ Done("quick_bid_calc")
    /\ response.status = 200

\* The max_bid /quick-bid-calc computes from its body, before rounding.
QuickBidComputed ==
    LET selling_price == Get(args, "selling_price", Num(0))
        fees          == Mul(selling_price, Get(args, "platform_fees", Rat(95, 1000)))
        net           == Sub(Sub(selling_price, fees), Get(args, "shipping_cost", Num(15)))
    IN  Div(net, Get(args, "target_multiplier", Dec(200)))

\* C7: whenever the computed max_bid is <= 0, the reported max_bid and the
\* reported roi percentage are both 0, in calculate_detailed_margins, in
\* calculate_margins and in /quick-bid-calc.
C7_ZeroWhenNoBid ==
    /\ DetailedReturned =>
         \A i \in 1..Len(ret.bidding_recommendations) :
            LET r == ret.bidding_recommendations[i]
            IN  Le(Div(ret.best_net_price, r.target_multiplier), Num(0)) =>
                    r.max_bid = Num(0) /\ r.roi_percentage = Num(0)
    /\ BasicReturned =>
         \A i \in 1..Len(BasicMultipliers) :
            LET m == BasicMultipliers[i]
            IN  Le(Div(ret.net_selling_price, m), Num(0)) =>
                    ret[MaxBidKey(m)] = Num(0) /\ ret[RoiKey(m)] = Num(0)
    /\ QuickBidAnswered =>
         (Le(QuickBidComputed, Num(0)) =>
              /\ response.body.max_bid = Num(0)
              /\ response.body.roi_percentage = Num(0))

\* C8: no ratio of the margin engine fails with a division by zero, whatever
\* the input, and max_bid = net price / target multiplier is 0 when the target
\* multiplier is <= 0.
C8_NoDivisionByZero ==
    /\ pc = "done" =>
         /\ ret # Exc("ZeroDivisionError")
         /\ ~IsNone(response) =>
                ~(response.status = 500 /\ response.body.error = "ZeroDivisionError")
    /\ DetailedReturned =>
         \A i \in 1..Len(ret.bidding_recommendations) :
            LET r == ret.bidding_recommendations[i]
            IN  Le(r.target_multiplier, Num(0)) => r.max_bid = Num(0)
    /\ BasicReturned =>
         \A i \in 1..Len(BasicMultipliers) :
            Le(BasicMultipliers[i], Num(0)) => ret[MaxBidKey(BasicMultipliers[i])] = Num(0)
    /\ QuickBidAnswered =>
         (Le(response.body.target_multiplier, Num(0)) => response.body.max_bid = Num(0))

RiskFields ==
    {"price_spread", "price_spread_percentage", "volatility", "risk_level",
     "confidence_score"}

\* C9: called with exactly one available platform, calculate_detailed_margins
\* does not fail and returns platform_analysis, best_platform,
\* bidding_recommendations and market_comparison with risk_analysis =
\* {error: 'Insufficient data for risk analysis'}; with two or more available
\* platforms risk_analysis holds the spread, volatility, risk level and
\* confidence score and no error.
C9_SinglePlatform ==
    DetailedCalled =>
        /\ Len(AvailableQuotes) = 1 =>
             /\ DetailedReturned
             /\ {"best_platform", "bidding_recommendations", "market_comparison"}
                    \subseteq DOMAIN ret
             /\ ret.risk_analysis = [error |-> "Insufficient data for risk analysis"]
        /\ Len(AvailableQuotes) >= 2 =>
             /\ DetailedReturned
             /\ DOMAIN ret.risk_analysis = RiskFields

\* The net selling prices calculate_risk_analysis reads.
NetPrices ==
    [i \in 1..Len(ret.platform_analysis) |->
        ret.platform_analysis[i].value.net_selling_price]

NetPriceSet == {NetPrices[i] : i \in 1..Len(NetPrices)}

MaxNet == CHOOSE x \in NetPriceSet : \A y \in NetPriceSet : Le(y, x)

MinNet == CHOOSE x \in NetPriceSet : \A y \in NetPriceSet : Le(x, y)

MeanNet == Div(Sum(NetPrices), Num(Len(NetPrices)))

\* (max net price - min net price) / mean net price * 100, where the mean is not 0
SpreadFormula == Mul(Div(Sub(MaxNet, MinNet), MeanNet), Num(100))

\* calculate_risk_analysis ran on two or more platforms.
RiskAnalysed == DetailedReturned /\ Len(ret.platform_analysis) >= 2

\* What C10 states of a risk analysis, given the spread percentage.
RiskFits(risk, spread) ==
    /\ risk.risk_level = IF Lt(spread, Num(5)) THEN "Low"
                         ELSE IF Lt(spread, Num(15)) THEN "Medium"
                         ELSE "High"
    /\ risk.confidence_score = IF Lt(Num(0), Sub(Num(100), spread))
                               THEN Sub(Num(100), spread)
                               ELSE Num(0)
    /\ Le(Num(0), risk.confidence_score)
    /\ Le(risk.confidence_score, Num(100))

\* C10 as stated: for two or more platforms, with spread% = (max net - min
\* net) / mean net * 100, risk_level is Low when spread% < 5, Medium when
\* 5 <= spread% < 15 and High otherwise, and confidence_score =
\* max(0, 100 - spread%) lies between 0 and 100.
C10_Original ==
    RiskAnalysed =>
        /\ ~IsZero(MeanNet)
        /\ RiskFits(ret.risk_analysis, SpreadFormula)

\* C10 (amended): for two or more platforms, with spread% = (max net - min
\* net) / mean net * 100 when the mean net price is positive and 0 when it is
\* not, risk_level is Low when spread% < 5, Medium when 5 <= spread% < 15 and
\* High otherwise, confidence_score = max(0, 100 - spread%) lies between 0 and
\* 100, and price_spread_percentage is spread% rounded to 2 decimals; net
\* prices {100, 103} give Low and {100, 120} give High.
C10_RiskLevel ==
    RiskAnalysed =>
        LET spread == IF Lt(Num(0), MeanNet) THEN SpreadFormula ELSE Num(0)
        IN  /\ RiskFits(ret.risk_analysis, spread)
            /\ ret.risk_analysis.price_spread_percentage = Round2(spread)
            /\ NetPrices \in {<<Num(100), Num(103)>>, <<Num(103), Num(100)>>} =>
                   ret.risk_analysis.risk_level = "Low"
            /\ NetPrices \in {<<Num(100), Num(120)>>, <<Num(120), Num(100)>>} =>
                   ret.risk_analysis.risk_level = "High"

\* Net prices {100, 103}: Low.
C10_Witness ==
    /\ RiskAnalysed
    /\ NetPrices = <<Num(100), Num(103)>>
    /\ ret.risk_analysis.risk_level = "Low"

\* Net prices {100, 120}: High.
C10_WitnessHigh ==
    /\ RiskAnalysed
    /\ NetPrices = <<Num(100), Num(120)>>
    /\ ret.risk_analysis.risk_level = "High"

\* A spread between 10 and 15 percent: Medium.
C10_WitnessMedium ==
    /\ RiskAnalysed
    /\ Lt(Num(10), ret.risk_analysis.price_spread_percentage)
    /\ Lt(ret.risk_analysis.price_spread_percentage, Num(15))
    /\ ret.risk_analysis.risk_level = "Medium"

\* A negative mean net price: the spread percentage is 0.
C10_WitnessNegativeMean ==
    /\ RiskAnalysed
    /\ NetPrices = <<Num(-15), Num(0)>>
    /\ ret.risk_analysis.price_spread_percentage = Num(0)
    /\ ret.risk_analysis.confidence_score = Num(100)

----------------------------------------------------------------------------
(* Properties of the endpoints *)

\* The body of a /check-price request lacks a product name or a size.
LacksProductOrSize ==
    \/ Strip(Get(args, "product_name", "")) = ""
    \/ Strip(Get(args, "size", "")) = ""

\* The body of an /advanced-analysis request has no prices, or empty ones.
LacksPrices == Get(args, "prices", <<>>) = <<>>

\* The body of a /quick-bid-calc request has no selling_price, or one <= 0.
LacksSellingPrice == Le(Get(args, "selling_price", Num(0)), Num(0))

\* A 400 response that carries an error message.
Is400(resp) == resp.status = 400 /\ "error" \in DOMAIN resp.body

\* C11: a request that lacks required input is answered 400 with an error
\* message and nothing is computed: /check-price without a product name or a
\* size starts no fetch and creates no event loop, /advanced-analysis without
\* prices runs no margin analysis, /quick-bid-calc with a missing or
\* non-positive selling_price computes no bid.
C11_ValidationFirst ==
    /\ (op = "check_price" /\ LacksProductOrSize) =>
         /\ loop = "none"
         /\ \A p \in Platforms : task[p] = NewTask
         /\ IsNone(ret)
         /\ pc = "done" => Is400(response)
    /\ (Done("advanced_analysis") /\ LacksPrices) =>
         /\ IsNone(ret)
         /\ Is400(response)
    /\ (Done("quick_bid_calc") /\ LacksSellingPrice) =>
         /\ "max_bid" \notin DOMAIN response.body
         /\ Is400(response)

\* The same for the requests whose body is a JSON object: the one request C11
\* fails on is /quick-bid-calc with the body null.
C11_ObjectBodies ==
    (pc = "done" /\ IsNone(args) /\ op = "quick_bid_calc") \/ C11_ValidationFirst

\* The three rejections.
C11_RejectedCheckPrice ==
    Done("check_price") /\ "product_name" \in DOMAIN args /\ LacksProductOrSize
        /\ response = Http(400, [error |-> "Size is required"])

C11_RejectedAdvanced ==
    Done("advanced_analysis") /\ "prices" \in DOMAIN args /\ LacksPrices
        /\ response = Http(400, [error |-> "Price data is required"])

C11_RejectedQuickBid ==
    Done("quick_bid_calc") /\ "selling_price" \in DOMAIN args /\ LacksSellingPrice
        /\ response = Http(400, [error |-> "Valid selling price is required"])

Endpoints == {"check_price", "advanced_analysis", "quick_bid_calc"}

\* C12: every endpoint answers every request (no exception leaves a handler),
\* and every error response has status 400 or 500 and the body
\* {success: false, error: <message>}.
C12_ErrorShape ==
    (pc = "done" /\ op \in Endpoints) =>
        /\ ~IsNone(response)
        /\ response.status # 200 =>
             /\ response.status \in {400, 500}
             /\ DOMAIN response.body = {"success", "error"}
             /\ response.body.success = FALSE

\* What holds of the error responses: the 500 ones have the stated shape, the
\* 400 ones carry the error message alone.
C12_ErrorShapeOf500 ==
    (pc = "done" /\ op \in Endpoints) =>
        /\ ~IsNone(response)
        /\ response.status \in {200, 400, 500}
        /\ response.status = 500 =>
             /\ DOMAIN response.body = {"success", "error"}
             /\ response.body.success = FALSE
        /\ response.status = 400 => DOMAIN response.body = {"error"}

----------------------------------------------------------------------------
(* Properties of the aggregation stage *)

\* The longest of the fetchers' sleeps and their sum, in tenths of a second.
SlowestDelay ==
    CHOOSE d \in {Delay(p) : p \in Platforms} : \A p \in Platforms : Delay(p) <= d

SumOfDelays == Delay("stockx") + Delay("goat") + Delay("kickscrew")

\* No fetch of the gather failed.
NoFetchRaised == \A p \in Platforms : ~task[p].raised

\* check_price was answered after the gather of check_prices.
GatherAnswered == op = "check_price" /\ pc = "done" /\ loop = "closed"

\* C14: the three fetches of a check_prices call are in flight together: each
\* starts its sleep at time 0, before the clock moves, so the gather is
\* complete no later than the longest sleep (0.7 s) and, when no fetch fails,
\* exactly then, never at the sum of the sleeps (1.5 s); the response_time of
\* the answer is that time.
C14_SlowestFetch ==
    /\ \A p \in Platforms :
          /\ (pc = "gathering" /\ task[p].state = "pending") => now = 0
          /\ task[p].state = "sleeping" => task[p].wake = Delay(p)
          /\ (task[p].state = "done" /\ ~task[p].raised) =>
               (task[p].wake = Delay(p) /\ now >= Delay(p))
    /\ op = "check_price" =>
          /\ now <= SlowestDelay
          /\ now < SumOfDelays
          /\ (GatherDone(task) /\ NoFetchRaised) => now = SlowestDelay
    /\ (GatherAnswered /\ response.status = 200) =>
          /\ response.body.response_time = FormatSeconds(Round2(Rat(now, 10)))
          /\ NoFetchRaised =>
               response.body.response_time = FormatSeconds(Round2(Rat(SlowestDelay, 10)))

\* A request answered after 0.7 s with the quotes of all three marketplaces.
C14_Witness ==
    /\ GatherAnswered
    /\ response.status = 200
    /\ NoFetchRaised
    /\ now = 7
    /\ response.body.response_time = <<Rat(7, 10), "s">>

\* The three fetches asleep at the same time.
C14_WitnessInFlight ==
    /\ pc = "gathering"
    /\ \A p \in Platforms : task[p].state = "sleeping"
    /\ now = 3

----------------------------------------------------------------------------
(* Properties of the market comparison and of the two selections *)

\* The platforms of platform_analysis, in the order of the analysis.
AnalysedPlatforms == DictKeys(ret.platform_analysis)

\* Position i of the ranking holds a platform with the net price of EntryOf.
RankedNet(i) == EntryOf(ret.market_comparison.platform_ranking[i]).net_selling_price

\* C15: platform_ranking holds every analysed platform once, by descending
\* net_selling_price; best_platform is its first element and worst_platform
\* its last; price_advantage is the best net price minus the worst (rounded
\* to 2 decimals, which changes nothing for prices in whole cents); the
\* best_platform of the comparison is the top-level best_platform, also when
\* platforms tie for the maximum.
C15_MarketComparison ==
    DetailedReturned =>
        LET mc      == ret.market_comparison
            ranking == mc.platform_ranking
        IN  /\ Len(ranking) = Len(AnalysedPlatforms)
            /\ {ranking[i] : i \in 1..Len(ranking)} =
                   {AnalysedPlatforms[i] : i \in 1..Len(AnalysedPlatforms)}
            /\ \A i, j \in 1..Len(ranking) : i # j => ranking[i] # ranking[j]
            /\ \A i, j \in 1..Len(ranking) : i < j => Le(RankedNet(j), RankedNet(i))
            /\ mc.best_platform = ranking[1]
            /\ mc.worst_platform = ranking[Len(ranking)]
            /\ mc.price_advantage =
                   Round2(Sub(RankedNet(1), RankedNet(Len(ranking))))
            /\ mc.price_advantage = Sub(RankedNet(1), RankedNet(Len(ranking)))
            /\ mc.best_platform = ret.best_platform

\* Three platforms ranked; the second and the third of the analysis tie for
\* the maximum (100) and the second is the best of both selections; the
\* advantage over the worst (95) is 5.
C15_Witness ==
    /\ DetailedReturned
    /\ Len(AnalysedPlatforms) = 3
    /\ NetOf(ret.platform_analysis[1]) = Num(95)
    /\ NetOf(ret.platform_analysis[2]) = Num(100)
    /\ NetOf(ret.platform_analysis[3]) = Num(100)
    /\ ret.market_comparison.platform_ranking =
           <<AnalysedPlatforms[2], AnalysedPlatforms[3], AnalysedPlatforms[1]>>
    /\ ret.market_comparison.best_platform = ret.best_platform
    /\ ret.market_comparison.price_advantage = Num(5)

\* The quotes calculate_margins was called with: its argument, or the results
\* of the fetches of check_prices.
BasicQuotesGiven ==
    IF op = "calculate_margins" THEN args.prices
    ELSE [i \in 1..Len(FetchOrder) |-> task[FetchOrder[i]].result]

BasicAvailable == Filter(BasicQuotesGiven, Available)

\* The best platform the advanced calculator names for the same quotes.
AdvancedBestPlatform == calculate_detailed_margins(BasicQuotesGiven, None).best_platform

\* C16: calculate_margins names as best_platform the first available quote
\* whose lowest_ask + fees is minimal, and reports its lowest_ask, its fees and
\* net_selling_price = lowest_ask - fees: no shipping is deducted.
C16_BasicSelection ==
    BasicReturned =>
        \E i \in 1..Len(BasicAvailable) :
            LET q == BasicAvailable[i]
            IN  /\ ret.best_platform = q.platform
                /\ \A j \in 1..Len(BasicAvailable) :
                       Le(Add(q.lowest_ask, q.fees),
                          Add(BasicAvailable[j].lowest_ask, BasicAvailable[j].fees))
                /\ \A j \in 1..(i - 1) :
                       Lt(Add(q.lowest_ask, q.fees),
                          Add(BasicAvailable[j].lowest_ask, BasicAvailable[j].fees))
                /\ ret.best_price = q.lowest_ask
                /\ ret.best_fees = q.fees
                /\ ret.net_selling_price = Sub(q.lowest_ask, q.fees)
                /\ ret.net_selling_price #
                       Sub(Sub(q.lowest_ask, q.fees), shipping_costs(q.platform))

\* The two calculators disagree on the quotes of the three fetchers: the basic
\* one names kickscrew (440 + 35.20 is the lowest cost, net 404.80), the
\* advanced one goat (465 - 44.18 - 15 = 405.82 is the highest net).
C16_Witness ==
    /\ BasicReturned
    /\ op = "check_price"
    /\ Len(BasicAvailable) = 3
    /\ ret.best_platform = "kickscrew"
    /\ ret.net_selling_price = Dec(40480)
    /\ AdvancedBestPlatform = "goat"

\* Two quotes with the same lowest_ask + fees: the first in input order is named.
C16_WitnessTie ==
    /\ BasicReturned
    /\ op = "calculate_margins"
    /\ Len(BasicAvailable) >= 2
    /\ Add(BasicAvailable[1].lowest_ask, BasicAvailable[1].fees) =
           Add(BasicAvailable[2].lowest_ask, BasicAvailable[2].fees)
    /\ ret.best_platform = BasicAvailable[1].platform

----------------------------------------------------------------------------
(* Several requests served by worker threads *)

(***************************************************************************)
(* In ServeSpec the variables hold, for every request r, what they hold    *)
(* for the one request of Spec: op[r], args[r], pc[r], task[r], ret[r],    *)
(* response[r], and now[r], the time since the start_time of r's           *)
(* check_prices.  The event loops are objects: loop.created counts the     *)
(* loops asyncio.new_event_loop() has returned (loop k is the k-th one),   *)
(* loop.own[r] is the loop of request r (0: none), loop.closed the set of  *)
(* closed loops, loop.worker[r] the worker thread that serves r, and       *)
(* loop.current[w] the loop asyncio.set_event_loop made current in thread  *)
(* w.  The module-level price_checker and advanced_calculator are shared   *)
(* by all requests; no method assigns their attributes.                    *)
(***************************************************************************)

\* Number of requests.
NumRequests == 2

Requests == 1..NumRequests

\* One thread serves every request in turn, or each request has its own thread.
WorkerAssignments == {[r \in Requests |-> 1], [r \in Requests |-> r]}

\* The requests: <<endpoint, body>>.
ServedRequests ==
    {<<"check_price", [product_name |-> "Nike Dunk Low Panda", size |-> "10"]>>,
     <<"check_price", [product_name |-> "Nike Dunk Low Panda"]>>,
     <<"quick_bid_calc", [selling_price |-> Num(100)]>>,
     <<"quick_bid_calc", [selling_price |-> Num(100), target_multiplier |-> Dec(0)]>>,
     <<"advanced_analysis",
       [prices |-> <<[key |-> "stockx",
                      value |-> [lowest_ask |-> Num(115), fees |-> Num(0)]],
                     [key |-> "kickscrew",
                      value |-> [lowest_ask |-> Num(150), fees |-> Num(15)]]>>]>>}

ServeInit ==
    /\ \E inv \in [Requests -> ServedRequests] :
         /\ op = [r \in Requests |-> inv[r][1]]
         /\ args = [r \in Requests |-> inv[r][2]]
    /\ pc = [r \in Requests |-> "idle"]
    /\ task = [r \in Requests |-> [p \in Platforms |-> NewTask]]
    /\ now = [r \in Requests |-> 0]
    /\ \E w \in WorkerAssignments :
         loop = [created |-> 0, own |-> [r \in Requests |-> 0], closed |-> {},
                 worker |-> w, current |-> [t \in Requests |-> 0]]
    /\ ret = [r \in Requests |-> None]
    /\ response = [r \in Requests |-> None]

\* A worker thread serves one request at a time.
WorkerFree(r) ==
    \A q \in Requests \ {r} : loop.worker[q] = loop.worker[r] => pc[q] # "gathering"

\* loop = asyncio.new_event_loop(); asyncio.set_event_loop(loop), for request r
NewEventLoop(l, r) ==
    [l EXCEPT !.created = @ + 1, !.own[r] = l.created + 1,
              !.current[l.worker[r]] = l.created + 1]

\* loop.close(), in the finally clause of check_price, for request r
CloseLoop(l, r) == [l EXCEPT !.closed = @ \cup {l.own[r]}]

ServeCheckPrice(r) ==
    /\ pc[r] = "idle"
    /\ op[r] = "check_price"
    /\ WorkerFree(r)
    /\ IF ~IsNone(CheckPriceRejection(args[r]))
       THEN /\ response' = [response EXCEPT ![r] = CheckPriceRejection(args[r])]
            /\ pc' = [pc EXCEPT ![r] = "done"]
            /\ UNCHANGED <<task, loop>>
       ELSE /\ loop' = NewEventLoop(loop, r)
            /\ task' = [task EXCEPT ![r] = [p \in Platforms |-> NewTask]]
            /\ pc' = [pc EXCEPT ![r] = "gathering"]
            /\ UNCHANGED response
    /\ UNCHANGED <<op, args, now, ret>>

\* The event loop of request r runs the tasks of the gather in the order they
\* were created, each up to its await asyncio.sleep(d).
ServeFetchStart(r, p) ==
    /\ pc[r] = "gathering"
    /\ task[r][p].state = "pending"
    /\ \A i, j \in 1..Len(FetchOrder) :
           (i < j /\ FetchOrder[j] = p) => task[r][FetchOrder[i]].state # "pending"
    /\ task' = [task EXCEPT ![r][p] =
                   [state |-> "sleeping", wake |-> now[r] + Delay(p),
                    raised |-> FALSE, result |-> None]]
    /\ UNCHANGED <<op, args, pc, now, loop, ret, response>>

\* Faulty variant of ServeFetchReturn: the quote is kept on the shared
\* price_checker object and every request's slot for the marketplace reads it.
ServeFetchReturnShared(r, p) ==
    /\ pc[r] = "gathering"
    /\ task[r][p].state = "sleeping"
    /\ task[r][p].wake <= now[r]
    /\ task' = [q \in Requests |->
                   IF q = r
                   THEN [task[q] EXCEPT ![p] =
                            [state |-> "done", wake |-> task[r][p].wake,
                             raised |-> FALSE, result |-> Fetch(p, FALSE)]]
                   ELSE IF task[q][p].state = "done"
                   THEN [task[q] EXCEPT ![p].result = Fetch(p, FALSE)]
                   ELSE task[q]]
    /\ UNCHANGED <<op, args, pc, now, loop, ret, response>>

ServeFetchReturn(r, p) ==
    /\ pc[r] = "gathering"
    /\ task[r][p].state = "sleeping"
    /\ task[r][p].wake <= now[r]
    /\ task' = [task EXCEPT ![r][p] =
                   [state |-> "done", wake |-> task[r][p].wake,
                    raised |-> FALSE, result |-> Fetch(p, FALSE)]]
    /\ UNCHANGED <<op, args, pc, now, loop, ret, response>>

\* An Exception is raised inside the try block of a fetcher of request r, at
\* its sleep or after it: the except clause returns the unavailable quote.
ServeFetchRaise(r, p) ==
    /\ pc[r] = "gathering"
    /\ task[r][p].state = "sleeping"
    /\ task' = [task EXCEPT ![r][p] =
                   [state |-> "done", wake |-> task[r][p].wake,
                    raised |-> TRUE, result |-> Fetch(p, TRUE)]]
    /\ UNCHANGED <<op, args, pc, now, loop, ret, response>>

\* Nothing of request r is ready to run: its event loop waits until its
\* earliest timer is due.
ServeTick(r) ==
    /\ pc[r] = "gathering"
    /\ \E p \in Platforms : task[r][p].state = "sleeping"
    /\ \A p \in Platforms : /\ task[r][p].state # "pending"
                            /\ task[r][p].state = "sleeping" => now[r] < task[r][p].wake
    /\ \E p \in Platforms :
         /\ task[r][p].state = "sleeping"
         /\ \A q \in Platforms :
                task[r][q].state = "sleeping" => task[r][p].wake <= task[r][q].wake
         /\ now' = [now EXCEPT ![r] = task[r][p].wake]
    /\ UNCHANGED <<op, args, pc, task, loop, ret, response>>

ServeCheckPricesResume(r) ==
    /\ pc[r] = "gathering"
    /\ GatherDone(task[r])
    /\ \E result \in {CheckPricesResult(args[r], task[r], now[r])} :
         /\ ret' = [ret EXCEPT ![r] = IF IsException(result) THEN result
                                      ELSE result.recommendations]
         /\ response' = [response EXCEPT ![r] = CheckPriceResponse(result)]
    /\ loop' = CloseLoop(loop, r)
    /\ pc' = [pc EXCEPT ![r] = "done"]
    /\ UNCHANGED <<op, args, task, now>>

\* Faulty variant of ServeCheckPricesRaise: no finally clause, the loop stays open.
ServeCheckPricesRaiseUnclosed(r) ==
    /\ pc[r] = "gathering"
    /\ \/ \A p \in Platforms : task[r][p].state = "pending"
       \/ GatherDone(task[r])
    /\ ret' = [ret EXCEPT ![r] = Exc("ClientError")]
    /\ response' = [response EXCEPT ![r] = CheckPriceResponse(Exc("ClientError"))]
    /\ pc' = [pc EXCEPT ![r] = "done"]
    /\ UNCHANGED <<op, args, task, now, loop>>

\* check_prices raises: "async with aiohttp.ClientSession()" fails on entry
\* (before the tasks run) or on exit (after the gather).  The finally clause
\* of check_price closes the loop and its except clause answers 500.
ServeCheckPricesRaise(r) ==
    /\ pc[r] = "gathering"
    /\ \/ \A p \in Platforms : task[r][p].state = "pending"
       \/ GatherDone(task[r])
    /\ ret' = [ret EXCEPT ![r] = Exc("ClientError")]
    /\ response' = [response EXCEPT ![r] = CheckPriceResponse(Exc("ClientError"))]
    /\ loop' = CloseLoop(loop, r)
    /\ pc' = [pc EXCEPT ![r] = "done"]
    /\ UNCHANGED <<op, args, task, now>>

ServeAdvancedAnalysis(r) ==
    /\ pc[r] = "idle"
    /\ op[r] = "advanced_analysis"
    /\ WorkerFree(r)
    /\ pc' = [pc EXCEPT ![r] = "done"]
    /\ \E outcome \in {AdvancedAnalysisOutcome(args[r])} :
         /\ ret' = [ret EXCEPT ![r] = outcome.ret]
         /\ response' = [response EXCEPT ![r] = outcome.response]
    /\ UNCHANGED <<op, args, task, now, loop>>

ServeQuickBid(r) ==
    /\ pc[r] = "idle"
    /\ op[r] = "quick_bid_calc"
    /\ WorkerFree(r)
    /\ pc' = [pc EXCEPT ![r] = "done"]
    /\ response' = [response EXCEPT ![r] = QuickBidResponse(args[r])]
    /\ UNCHANGED <<op, args, task, now, loop, ret>>

ServeNext ==
    \/ \E r \in Requests : ServeCheckPrice(r)
    \/ \E r \in Requests, p \in Platforms : ServeFetchStart(r, p)
    \/ \E r \in Requests, p \in Platforms : ServeFetchReturn(r, p)
    \/ \E r \in Requests, p \in Platforms : ServeFetchRaise(r, p)
    \/ \E r \in Requests : ServeTick(r)
    \/ \E r \in Requests : ServeCheckPricesResume(r)
    \/ \E r \in Requests : ServeCheckPricesRaise(r)
    \/ \E r \in Requests : ServeAdvancedAnalysis(r)
    \/ \E r \in Requests : ServeQuickBid(r)

ServeSpec == ServeInit /\ [][ServeNext]_vars

\* A step of request r's event loop before the gather is complete: it runs a
\* task that is ready or waits for its earliest timer.
TaskStep(r) ==
    \/ \E p \in Platforms : ServeFetchStart(r, p)
    \/ \E p \in Platforms : ServeFetchReturn(r, p)
    \/ ServeTick(r)

\* ServeCheckPricesResume(r) can be taken: its guard.
CanResume(r) == pc[r] = "gathering" /\ GatherDone(task[r])

\* loop.run_until_complete keeps every event loop running until check_prices
\* is complete: weak fairness of the steps of each loop.  The failures
\* (ServeFetchRaise, ServeCheckPricesRaise) may or may not happen.  For the
\* resumption, WF_vars(ServeCheckPricesResume(r)) is written out, with
\* CanResume(r) for ENABLED <<ServeCheckPricesResume(r)>>_vars.
FairServeSpec ==
    /\ ServeSpec
    /\ \A r \in Requests :
         /\ WF_vars(TaskStep(r))
         /\ ([]<>~CanResume(r)) \/ ([]<><<ServeCheckPricesResume(r)>>_vars)

----------------------------------------------------------------------------
(* Properties of the served requests *)

\* The quotes of request r's fetches, by which of them failed.
OwnQuotes(r) ==
    [i \in 1..Len(FetchOrder) |-> Fetch(FetchOrder[i], task[r][FetchOrder[i]].raised)]

\* Request r was answered by check_prices.
PricesChecked(r) ==
    /\ op[r] = "check_price"
    /\ pc[r] = "done"
    /\ response[r].status = 200

C13_WitnessQuickBid ==
    /\ op[1] = "quick_bid_calc" /\ op[2] = "quick_bid_calc"
    /\ args[1] = args[2]
    /\ pc[1] = "done" /\ pc[2] = "done"
    /\ response[1].status = 200
    /\ response[1] = response[2]

\* Request r passed the validation of /check-price.
PassedValidation(r) ==
    op[r] = "check_price" /\ IsNone(CheckPriceRejection(args[r]))

\* Request r has its loop and the loop is closed.
LoopClosed(r) == loop.own[r] # 0 /\ loop.own[r] \in loop.closed

\* C17: a /check-price request that passes validation creates one event loop
\* of its own, which no other request has, keeps it, and the loop is closed
\* when the request is answered, with 200 or with 500; every loop that is
\* created is eventually closed; other requests create no loop.
C17_LoopPerRequest ==
    /\ [](\A r \in Requests :
            /\ (PassedValidation(r) /\ pc[r] # "idle") <=> loop.own[r] # 0
            /\ \A q \in Requests \ {r} : loop.own[r] # 0 => loop.own[q] # loop.own[r]
            /\ ~IsNone(response[r]) => (loop.own[r] = 0 \/ LoopClosed(r))
            /\ pc[r] = "gathering" => ~LoopClosed(r))
    /\ [][\A r \in Requests :
            /\ loop.own[r] # 0 => loop'.own[r] = loop.own[r]
            /\ LoopClosed(r) => LoopClosed(r)']_vars
    /\ \A r \in Requests : (loop.own[r] # 0) ~> LoopClosed(r)

\* Two answered requests with two closed loops: check_prices raised in one and
\* returned in the other.
C17_Witness ==
    /\ pc[1] = "done" /\ pc[2] = "done"
    /\ response[1].status = 500 /\ ret[1] = Exc("ClientError")
    /\ response[2].status = 200
    /\ LoopClosed(1) /\ LoopClosed(2)
    /\ loop.own[1] # loop.own[2]

====
